---------------------------- MODULE Spec2Model ----------------------------
(***************************************************************************)
(* A model of the Figma Context MCP server: the pure helpers of            *)
(* src/utils/common.ts (convertColor, formatRGBAColor, parsePaint,         *)
(* generateCSSShorthand, removeEmptyKeys, isVisible, generateVarId), the   *)
(* FigmaService request path and the get_figma_data tool handler.          *)
(*                                                                         *)
(* JavaScript values are encoded as records tagged by the field t, so that *)
(* values of different JavaScript types can be compared.  Real numbers are *)
(* exact fractions num/den; Math.round is computed on the fraction.        *)
(***************************************************************************)
EXTENDS Integers, Sequences, FiniteSets, TLC

VARIABLES
    call,       \* name of the helper of utils/common.ts applied last
    args,       \* the arguments it was applied to
    ret,        \* what it returned (or the error it threw)
    styleIds,   \* identifiers returned by generateVarId so far in this run
    fetchAvailable, \* typeof fetch === "function" in this Node.js runtime
    pc,         \* where the get_figma_data call stands
    toolArgs,   \* {fileKey, nodeId, depth} of the get_figma_data call
    fetches,    \* fetch calls issued on behalf of the call
    response,   \* the Response the fetch resolved with
    settled,    \* what getFile / getNode returned or threw
    toolResult, \* what the get_figma_data handler returned
    isStdioMode,    \* startServer: the server speaks the protocol on stdout
    stdout,         \* console.log lines written to standard output
    dlPc,           \* where the download_figma_images call stands
    dlNodes,        \* the nodes argument of the download_figma_images call
    fillDownloads,  \* what the promise of getImageFills settled with
    renderDownloads,    \* what the promise of getImages settled with
    savedFiles,     \* file names for which a download produced a file
    dlResult,       \* what the download_figma_images handler returned
    stPc,           \* downloadFigmaImage: position of processStream
    promise,        \* downloadFigmaImage: state of the returned promise
    queued,         \* chunks handed to writer.write
    flushed,        \* chunks the file stream has written to the file
    writer,         \* the file stream: "open", "errored" or "finished"
    ended,          \* writer.end() was called
    readFailed,     \* reader.read() rejected
    cancelled,      \* reader.cancel() was called
    unlinks,        \* fs.unlink(fullPath) requests
    transports,     \* FigmaMcpServer.transports: sessionId -> transport
    sse,            \* the GET /sse connections: "open" or "closed", by number
    post            \* the POST /messages requests so far, each with its handling

helperVars == <<call, args, ret>>
toolVars == <<fetchAvailable, pc, toolArgs, fetches, response, settled, toolResult>>
downloadVars == <<isStdioMode, stdout, dlPc, dlNodes, fillDownloads,
                  renderDownloads, savedFiles, dlResult>>
streamVars == <<stPc, promise, queued, flushed, writer, ended, readFailed,
                cancelled, unlinks>>
httpVars == <<transports, sse, post>>
vars == <<call, args, ret, styleIds, fetchAvailable, pc, toolArgs, fetches,
          response, settled, toolResult, downloadVars, streamVars, httpVars>>

---------------------------------------------------------------------------
(* Bounds of the model.                                                    *)

MaxSide == 3        \* box metrics range over -1..MaxSide
ChanDen == 2        \* colour channels range over k/ChanDen, k in 0..ChanDen
AlphaDen == 4       \* alpha and opacity range over k/AlphaDen
MaxLen == 2         \* longest array given to removeEmptyKeys
MaxStops == 2       \* most gradient stops of a paint
MaxIds == 2         \* most generateVarId calls of one run
RandDen == 2        \* Math.random() ranges over k/RandDen, k in 0..RandDen-1
MaxPaints == 2      \* most paints of a fetched document
MaxNodes == 2       \* most nodes of one download_figma_images call
MaxChunks == 4      \* most chunks of one image body
MaxConns == 2       \* most GET /sse connections
MaxPosts == 2       \* most POST /messages requests

---------------------------------------------------------------------------
(* JavaScript values.                                                      *)

Undefined == [t |-> "undefined"]
Null == [t |-> "null"]
Str(s) == [t |-> "string", s |-> s]
Bool(b) == [t |-> "boolean", b |-> b]
\* the number num/den
Num(n, d) == [t |-> "number", num |-> n, den |-> d]
NumInt(n) == Num(n, 1)
Arr(items) == [t |-> "array", items |-> items]
\* an object: its own enumerable keys in insertion order, with their values
Obj(entries) == [t |-> "object", entries |-> entries]
Entry(k, v) == [key |-> k, value |-> v]

IsArray(v) == v.t = "array"
\* typeof v === "object" && v !== null
IsObjectNotNull(v) == v.t \in {"array", "object"}
\* Object.keys(v).length for arrays and objects
KeyCount(v) == IF v.t = "array" THEN Len(v.items) ELSE Len(v.entries)

\* Math.round(num/den) for den > 0: the nearest integer, halves upwards
MathRound(num, den) == (2 * num + den) \div (2 * den)

\* a === b on numbers
NumEq(a, b) == a.num * b.den = b.num * a.den

DecDigit == <<"0", "1", "2", "3", "4", "5", "6", "7", "8", "9">>

RECURSIVE NatToString(_)
\* the decimal digits of a natural number, most significant first
NatToString(n) ==
    IF n < 10 THEN DecDigit[n + 1]
    ELSE NatToString(n \div 10) \o DecDigit[(n % 10) + 1]

\* `${n}` for an integer n
IntToString(n) == IF n < 0 THEN "-" \o NatToString(-n) ELSE NatToString(n)

\* `${h/100}` for a natural number of hundredths h: shortest decimal form
HundredthsToString(h) ==
    IF h % 100 = 0 THEN NatToString(h \div 100)
    ELSE IF h % 10 = 0
         THEN NatToString(h \div 100) \o "." \o DecDigit[((h % 100) \div 10) + 1]
         ELSE NatToString(h \div 100) \o "." \o DecDigit[((h % 100) \div 10) + 1]
                                      \o DecDigit[(h % 10) + 1]

---------------------------------------------------------------------------
(* generateCSSShorthand, src/utils/common.ts:228-263                       *)

\* a variant that looks at top === bottom before right === left
generateCSSShorthandTopFirst(values, options) ==
    LET ignoreZero == IF options.ignoreZero = Undefined THEN TRUE
                      ELSE options.ignoreZero.b
        suffix == IF options.suffix = Undefined THEN "px" ELSE options.suffix.s
        V(n) == IntToString(n) \o suffix
    IN  IF ignoreZero /\ values.top = 0 /\ values.right = 0
                      /\ values.bottom = 0 /\ values.left = 0
        THEN Undefined
        ELSE IF values.top = values.right /\ values.right = values.bottom
                                          /\ values.bottom = values.left
        THEN Str(V(values.top))
        ELSE IF values.top = values.bottom
        THEN Str(V(values.top) \o " " \o V(values.right))
        ELSE IF values.right = values.left
        THEN Str(V(values.top) \o " " \o V(values.right) \o " " \o V(values.bottom))
        ELSE Str(V(values.top) \o " " \o V(values.right) \o " "
                               \o V(values.bottom) \o " " \o V(values.left))

generateCSSShorthand(values, options) ==
    LET top == values.top
        right == values.right
        bottom == values.bottom
        left == values.left
        \* { ignoreZero = true, suffix = "px" } = {}
        ignoreZero == IF options.ignoreZero = Undefined THEN TRUE
                      ELSE options.ignoreZero.b
        suffix == IF options.suffix = Undefined THEN "px" ELSE options.suffix.s
        V(n) == IntToString(n) \o suffix
    IN  IF ignoreZero /\ top = 0 /\ right = 0 /\ bottom = 0 /\ left = 0
        THEN Undefined
        ELSE IF top = right /\ right = bottom /\ bottom = left
        THEN Str(V(top))
        ELSE IF right = left
        THEN IF top = bottom
             THEN Str(V(top) \o " " \o V(right))
             ELSE Str(V(top) \o " " \o V(right) \o " " \o V(bottom))
        ELSE Str(V(top) \o " " \o V(right) \o " " \o V(bottom) \o " " \o V(left))

---------------------------------------------------------------------------
(* convertColor and formatRGBAColor, src/utils/common.ts:165-194           *)

HexDigit == <<"0", "1", "2", "3", "4", "5", "6", "7", "8", "9",
              "a", "b", "c", "d", "e", "f">>

RECURSIVE NumberToString16(_)
\* Number.prototype.toString(16): the lower-case digits as a sequence
NumberToString16(n) ==
    IF n < 16 THEN <<HexDigit[n + 1]>>
    ELSE Append(NumberToString16(n \div 16), HexDigit[(n % 16) + 1])

\* String.prototype.toUpperCase on one hexadecimal digit
UpperChar(c) ==
    CASE c = "a" -> "A" [] c = "b" -> "B" [] c = "c" -> "C"
      [] c = "d" -> "D" [] c = "e" -> "E" [] c = "f" -> "F"
      [] OTHER -> c

RECURSIVE Join(_)
\* the string made of a sequence of characters
Join(chars) == IF chars = <<>> THEN "" ELSE Head(chars) \o Join(Tail(chars))

\* the default value 1 of an omitted (undefined) opacity argument
OpacityOrDefault(opacity) == IF opacity = Undefined THEN NumInt(1) ELSE opacity

\* Math.round(opacity * color.a * 100), the combined opacity in hundredths
CombinedHundredths(color, opacity) ==
    MathRound(opacity.num * color.a.num * 100, opacity.den * color.a.den)

\* a variant without the (1 << 24) guard digit: no zero padding
HexOfUnpadded(r, g, b) ==
    LET digits == NumberToString16(r * 65536 + g * 256 + b)
    IN  "#" \o Join([i \in 1..Len(digits) |-> UpperChar(digits[i])])

\* "#" + ((1 << 24) + (r << 16) + (g << 8) + b).toString(16).slice(1).toUpperCase()
HexOf(r, g, b) ==
    LET packed == 16777216 + r * 65536 + g * 256 + b
        digits == NumberToString16(packed)
        sliced == [i \in 1..(Len(digits) - 1) |-> UpperChar(digits[i + 1])]
    IN  "#" \o Join(sliced)

convertColor(color, opacity) ==
    LET o == OpacityOrDefault(opacity)
        r == MathRound(color.r.num * 255, color.r.den)
        g == MathRound(color.g.num * 255, color.g.den)
        b == MathRound(color.b.num * 255, color.b.den)
        a == Num(CombinedHundredths(color, o), 100)
    IN  [hex |-> HexOf(r, g, b), opacity |-> a]

formatRGBAColor(color, opacity) ==
    LET o == OpacityOrDefault(opacity)
        r == MathRound(color.r.num * 255, color.r.den)
        g == MathRound(color.g.num * 255, color.g.den)
        b == MathRound(color.b.num * 255, color.b.den)
        a == CombinedHundredths(color, o)
    IN  "rgba(" \o NatToString(r) \o ", " \o NatToString(g) \o ", "
                \o NatToString(b) \o ", " \o HundredthsToString(a) \o ")"

---------------------------------------------------------------------------
(* parsePaint, src/utils/common.ts:270-302                                 *)

GradientTypes ==
    {"GRADIENT_LINEAR", "GRADIENT_RADIAL", "GRADIENT_ANGULAR", "GRADIENT_DIAMOND"}

\* a returned value, and a thrown Error with its message
Returned(v) == [ok |-> TRUE, value |-> v]
Thrown(message) == [ok |-> FALSE, error |-> [t |-> "Error", message |-> message]]

\* the IMAGE branch
parseImage(raw) ==
    Returned([type |-> "IMAGE", imageRef |-> raw.imageRef,
              scaleMode |-> raw.scaleMode])

\* the SOLID branch
parseSolid(raw) ==
    LET cv == convertColor(raw.color, raw.opacity)
    IN  IF NumEq(cv.opacity, NumInt(1))
        THEN Returned(Str(cv.hex))
        ELSE Returned(Str(formatRGBAColor(raw.color, cv.opacity)))

\* a variant that folds the paint's opacity into every stop
parseGradientWithOpacity(raw) ==
    Returned([type |-> raw.type,
              gradientHandlePositions |-> raw.gradientHandlePositions,
              gradientStops |->
                  [i \in 1..Len(raw.gradientStops) |->
                      [position |-> raw.gradientStops[i].position,
                       color |-> convertColor(raw.gradientStops[i].color,
                                              raw.opacity)]]])

\* the branch of the four gradient kinds
parseGradient(raw) ==
    Returned([type |-> raw.type,
              gradientHandlePositions |-> raw.gradientHandlePositions,
              gradientStops |->
                  [i \in 1..Len(raw.gradientStops) |->
                      [position |-> raw.gradientStops[i].position,
                       color |-> convertColor(raw.gradientStops[i].color,
                                              Undefined)]]])

\* a variant that passes an unknown paint through instead of throwing
parseUnknownLenient(raw) == Returned([type |-> raw.type])

\* the final else branch: throw new Error(`Unknown paint type: ${raw.type}`)
parseUnknown(raw) == Thrown("Unknown paint type: " \o raw.type)

parsePaint(raw) ==
    IF raw.type = "IMAGE" THEN parseImage(raw)
    ELSE IF raw.type = "SOLID" THEN parseSolid(raw)
    ELSE IF raw.type \in GradientTypes THEN parseGradient(raw)
    ELSE parseUnknown(raw)

---------------------------------------------------------------------------
(* isVisible, src/utils/common.ts:309-311                                  *)

\* a variant written with || in place of ??
isVisibleOr(element) ==
    IF element.visible \in {Undefined, Null} THEN TRUE
    ELSE element.visible.b \/ TRUE

\* element.visible ?? true
isVisible(element) ==
    IF element.visible \in {Undefined, Null} THEN TRUE ELSE element.visible.b

---------------------------------------------------------------------------
(* removeEmptyKeys, src/utils/common.ts:94-130                             *)

RECURSIVE removeEmptyKeys(_)
RECURSIVE CleanEntries(_)

\* a variant that keeps a key only when its cleaned value is truthy
CleanEntriesTruthy(entries) ==
    IF entries = <<>> THEN <<>>
    ELSE LET cleanedValue == removeEmptyKeys(Head(entries).value)
             rest == CleanEntries(Tail(entries))
         IN  IF /\ cleanedValue \notin {Undefined, Null, NumInt(0), Bool(FALSE), Str("")}
                /\ ~(IsObjectNotNull(cleanedValue) /\ KeyCount(cleanedValue) = 0)
             THEN <<Entry(Head(entries).key, cleanedValue)>> \o rest
             ELSE rest

\* the for-in loop of removeEmptyKeys over the entries of an object
CleanEntries(entries) ==
    IF entries = <<>> THEN <<>>
    ELSE LET key == Head(entries).key
             cleanedValue == removeEmptyKeys(Head(entries).value)
             rest == CleanEntries(Tail(entries))
         IN  IF /\ cleanedValue # Undefined
                /\ ~(IsArray(cleanedValue) /\ KeyCount(cleanedValue) = 0)
                /\ ~(IsObjectNotNull(cleanedValue) /\ KeyCount(cleanedValue) = 0)
             THEN <<Entry(key, cleanedValue)>> \o rest
             ELSE rest

removeEmptyKeys(input) ==
    IF ~IsObjectNotNull(input) THEN input
    ELSE IF IsArray(input)
    THEN Arr([i \in 1..Len(input.items) |-> removeEmptyKeys(input.items[i])])
    ELSE Obj(CleanEntries(input.entries))

---------------------------------------------------------------------------
(* The inputs the helpers are applied to.                                  *)

Sides == -1..MaxSide
BoxValues == [top : Sides, right : Sides, bottom : Sides, left : Sides]
ShorthandOptions ==
    [ignoreZero : {Undefined, Bool(TRUE), Bool(FALSE)},
     suffix : {Undefined, Str("%")}]

\* channels in [0,1]: the grid k/ChanDen and three values that round below 17
Channels == {Num(k, ChanDen) : k \in 0..ChanDen}
                \cup {Num(10, 255), Num(15, 255), Num(16, 255)}
Alphas == {Num(k, AlphaDen) : k \in 0..AlphaDen}
Colors == [r : Channels, g : Channels, b : Channels, a : Alphas]
Opacities == Alphas \cup {Undefined}

StopColors ==
    {[r |-> Num(r, ChanDen), g |-> Num(0, ChanDen), b |-> Num(10, 255), a |-> a] :
        r \in {0, ChanDen}, a \in {Num(1, AlphaDen), Num(AlphaDen, AlphaDen)}}
Stops == [position : {Num(0, 1), Num(1, 1)}, color : StopColors]
StopLists == UNION {[1..n -> Stops] : n \in 0..MaxStops}
HandlePositions == {<<"h0", "h1", "h2">>, <<"h3", "h4", "h5">>}
OtherPaintTypes == {"VIDEO", "EMOJI", "PATTERN"}

ImagePaints ==
    [type : {"IMAGE"}, imageRef : {"ref1", "ref2"}, scaleMode : {"FILL", "FIT"},
     opacity : Opacities]
SolidPaints == [type : {"SOLID"}, color : Colors, opacity : Opacities]
GradientPaints ==
    [type : GradientTypes, gradientHandlePositions : HandlePositions,
     gradientStops : StopLists, opacity : Opacities]
OtherPaints == [type : OtherPaintTypes, opacity : Opacities]
Paints == ImagePaints \cup SolidPaints \cup GradientPaints \cup OtherPaints

Elements == [visible : {Undefined, Bool(TRUE), Bool(FALSE)}, id : {"1:2", "1:3"}]

Prims == {Undefined, Null, NumInt(0), Bool(FALSE), Str("")}
Leaves == Prims \cup {Arr(<<>>), Obj(<<>>)}
ArrElems == {Undefined, NumInt(0), Arr(<<>>), Obj(<<>>)}
ObjsOf(S) ==
    {Obj(<<>>)} \cup {Obj(<<Entry(k, v)>>) : k \in {"a", "b"}, v \in S}
                \cup {Obj(<<Entry("a", v), Entry("b", w)>>) : v \in S, w \in S}
ArrsOf(S) == {Arr(s) : s \in UNION {[1..n -> S] : n \in 0..MaxLen}}
Level1 == ObjsOf(Leaves) \cup ArrsOf(ArrElems)
Inner == {Obj(<<Entry("a", v)>>) : v \in Leaves} \cup ArrsOf(ArrElems)
Level2 == ObjsOf(Prims \cup Inner)
Level3 == {Obj(<<Entry("a", v)>>) : v \in Level2}
                \cup {Arr(<<v, Obj(<<>>)>>) : v \in Level2}
\* {a: [], b: {}, c: 0, d: false, e: {f: 1}}
ExampleInput ==
    Obj(<<Entry("a", Arr(<<>>)), Entry("b", Obj(<<>>)), Entry("c", NumInt(0)),
          Entry("d", Bool(FALSE)), Entry("e", Obj(<<Entry("f", NumInt(1))>>))>>)
Values == Prims \cup Level1 \cup Level2 \cup Level3 \cup {ExampleInput}

---------------------------------------------------------------------------
(* One helper is applied to one input: Init draws the helper and its       *)
(* arguments, the helper's action computes the result.                     *)

\* the result of a call that has not been made yet
Pending == [t |-> "pending"]

\* no get_figma_data call has been made
ToolIdle ==
    /\ pc = "idle"
    /\ toolArgs = Undefined
    /\ fetches = 0
    /\ response = Undefined
    /\ settled = Pending
    /\ toolResult = Pending

\* no download_figma_images call has been made
DownloadIdle ==
    /\ isStdioMode = FALSE
    /\ stdout = <<>>
    /\ dlPc = "idle"
    /\ dlNodes = <<>>
    /\ fillDownloads = Pending
    /\ renderDownloads = Pending
    /\ savedFiles = {}
    /\ dlResult = Pending

\* downloadFigmaImage has not been called
StreamIdle ==
    /\ stPc = "idle"
    /\ promise = "none"
    /\ queued = 0
    /\ flushed = 0
    /\ writer = "none"
    /\ ended = FALSE
    /\ readFailed = FALSE
    /\ cancelled = FALSE
    /\ unlinks = 0

\* the HTTP server has seen no request
HttpIdle ==
    /\ transports = {}
    /\ sse = <<>>
    /\ post = <<>>

Init ==
    /\ \/ /\ call = "generateCSSShorthand"
          /\ args \in [values : BoxValues, options : ShorthandOptions]
       \/ /\ call = "convertColor"
          /\ args \in [color : Colors, opacity : Opacities]
       \/ /\ call = "parsePaint"
          /\ args \in [raw : Paints]
       \/ /\ call = "isVisible"
          /\ args \in [element : Elements]
       \/ /\ call = "removeEmptyKeys"
          /\ args \in [input : Values]
    /\ ret = Pending
    /\ styleIds = <<>>
    /\ ToolIdle
    /\ fetchAvailable = TRUE
    /\ DownloadIdle /\ StreamIdle /\ HttpIdle

GenerateCSSShorthand ==
    /\ call = "generateCSSShorthand" /\ ret = Pending
    /\ ret' = generateCSSShorthand(args.values, args.options)
    /\ UNCHANGED <<call, args, styleIds, toolVars, downloadVars, streamVars, httpVars>>

ConvertColor ==
    /\ call = "convertColor" /\ ret = Pending
    /\ ret' = convertColor(args.color, args.opacity)
    /\ UNCHANGED <<call, args, styleIds, toolVars, downloadVars, streamVars, httpVars>>

ParsePaint ==
    /\ call = "parsePaint" /\ ret = Pending
    /\ ret' = parsePaint(args.raw)
    /\ UNCHANGED <<call, args, styleIds, toolVars, downloadVars, streamVars, httpVars>>

IsVisible ==
    /\ call = "isVisible" /\ ret = Pending
    /\ ret' = Bool(isVisible(args.element))
    /\ UNCHANGED <<call, args, styleIds, toolVars, downloadVars, streamVars, httpVars>>

RemoveEmptyKeys ==
    /\ call = "removeEmptyKeys" /\ ret = Pending
    /\ ret' = removeEmptyKeys(args.input)
    /\ UNCHANGED <<call, args, styleIds, toolVars, downloadVars, streamVars, httpVars>>

Next ==
    \/ GenerateCSSShorthand
    \/ ConvertColor
    \/ ParsePaint
    \/ IsVisible
    \/ RemoveEmptyKeys

Spec == Init /\ [][Next]_vars

---------------------------------------------------------------------------
(* generateVarId, src/utils/common.ts:201-211.  Each Math.random() call is *)
(* an arbitrary value of [0,1); a run is the sequence of identifiers       *)
(* generated for one conversion.                                           *)

IdLength == 6

chars == <<"A", "B", "C", "D", "E", "F", "G", "H", "I", "J", "K", "L", "M",
           "N", "O", "P", "Q", "R", "S", "T", "U", "V", "W", "X", "Y", "Z",
           "0", "1", "2", "3", "4", "5", "6", "7", "8", "9">>

\* the outcomes k/RandDen of Math.random(), by their numerator
Randoms == 0..(RandDen - 1)

\* randoms[i] is the numerator of the i-th Math.random() of the call
generateVarId(prefix, randoms) ==
    LET p == IF prefix = Undefined THEN "var" ELSE prefix.s
        \* Math.floor(Math.random() * chars.length)
        randomIndex(i) == (randoms[i] * Len(chars)) \div RandDen
        result == Join([i \in 1..IdLength |-> chars[randomIndex(i) + 1]])
    IN  p \o "_" \o result

Prefixes == {Undefined, Str("fill"), Str("layout")}

InitVarId ==
    /\ call = "generateVarId"
    /\ args = Undefined
    /\ ret = Pending
    /\ styleIds = <<>>
    /\ ToolIdle
    /\ fetchAvailable = TRUE
    /\ DownloadIdle /\ StreamIdle /\ HttpIdle

GenerateVarId ==
    /\ call = "generateVarId"
    /\ Len(styleIds) < MaxIds
    /\ \E prefix \in Prefixes, randoms \in [1..IdLength -> Randoms] :
          LET id == generateVarId(prefix, randoms)
          IN  /\ args' = [prefix |-> prefix]
              /\ ret' = Str(id)
              /\ styleIds' = Append(styleIds, id)
    /\ UNCHANGED <<call, toolVars, downloadVars, streamVars, httpVars>>

NextVarId == GenerateVarId

SpecVarId == InitVarId /\ [][NextVarId]_vars

---------------------------------------------------------------------------
(* FigmaService.request, getFile and getNode (src/unnamed/part_001) and    *)
(* the get_figma_data handler (src/cli.ts:112-148).  The messages of the   *)
(* source are Chinese literals; they are written here in English.          *)

\* part_001:64, the message thrown when fetch is not a function
NoFetchText == "fetch is not available in this Node.js runtime"
\* part_001:78, the text used in place of an empty statusText
UnknownErrorText == "unknown error"
\* part_001:88 and 90, the prefix of a wrapped request failure
RequestFailedPrefix == "request to the Figma API failed: "
\* cli.ts:145, the prefix of the text of an error result
ToolErrorPrefix == "error while fetching the file: "

Error(message) == [t |-> "Error", message |-> message]

\* Response.ok
ResponseOk(resp) == resp.status \in 200..299

\* a variant that reports the fallback text for every failure
FigmaErrorOfTextLost(resp) ==
    [t |-> "FigmaError", status |-> resp.status, err |-> UnknownErrorText]

\* { status: response.status, err: response.statusText || "..." }
FigmaErrorOf(resp) ==
    [t |-> "FigmaError",
     status |-> resp.status,
     err |-> IF resp.statusText = "" THEN UnknownErrorText ELSE resp.statusText]

\* the catch block of request: what it rethrows for a caught error
requestCatch(error) ==
    IF error.t = "FigmaError" /\ error.status # 0 THEN error
    ELSE IF error.t = "Error" THEN Error(RequestFailedPrefix \o error.message)
    ELSE Error(RequestFailedPrefix \o "[object Object]")

\* the conversion of a fetched document: every paint goes through parsePaint
\* and the first error aborts the whole conversion
parseFigmaResponse(doc) ==
    LET fills == [i \in 1..Len(doc.paints) |-> parsePaint(doc.paints[i])]
        failed == {i \in 1..Len(fills) : ~fills[i].ok}
    IN  IF failed # {}
        THEN fills[CHOOSE i \in failed : \A j \in failed : i <= j]
        ELSE Returned([name |-> doc.name,
                       nodes |-> [i \in 1..Len(fills) |-> fills[i].value],
                       globalVars |-> [styles |-> <<>>]])

\* JSON.stringify of a thrown FigmaError object
JSONStringify(error) ==
    "{\"status\":" \o NatToString(error.status) \o ",\"err\":\"" \o error.err \o "\"}"

\* yaml.dump(result), kept symbolic
YamlDump(result) == [t |-> "yaml", of |-> result]

\* a variant whose catch block rethrows
ToolHandlerRethrows(outcome) ==
    IF outcome.ok
    THEN [content |-> <<[type |-> "text", text |-> YamlDump(outcome.value)]>>]
    ELSE outcome

\* the handler of get_figma_data after getFile / getNode settled with outcome
ToolHandler(outcome) ==
    IF outcome.ok
    THEN LET file == outcome.value
             result == [metadata |-> [name |-> file.name],
                        nodes |-> file.nodes,
                        globalVars |-> file.globalVars]
         IN  [content |-> <<[type |-> "text", text |-> YamlDump(result)]>>]
    ELSE LET error == outcome.error
             message == IF error.t = "Error" THEN error.message
                        ELSE JSONStringify(error)
         IN  [isError |-> TRUE,
              content |-> <<[type |-> "text",
                             text |-> Str(ToolErrorPrefix \o message)]>>]

Statuses == {200, 201, 304, 403, 404, 500}
StatusTexts == {"", "Not Found", "Forbidden"}
DocPaints ==
    {[type |-> "SOLID", opacity |-> Undefined,
      color |-> [r |-> NumInt(1), g |-> NumInt(0), b |-> NumInt(0), a |-> NumInt(1)]],
     [type |-> "IMAGE", opacity |-> Undefined, imageRef |-> "ref1",
      scaleMode |-> "FILL"],
     [type |-> "VIDEO", opacity |-> Undefined]}
Docs == [name : {"Doc"}, paints : UNION {[1..n -> DocPaints] : n \in 0..MaxPaints}]
\* a body that is not JSON
InvalidJson == [name |-> "<html>", paints |-> <<>>]
Bodies == Docs \cup {InvalidJson}

InitTool ==
    /\ call = "none"
    /\ args = Undefined
    /\ ret = Pending
    /\ styleIds = <<>>
    /\ ToolIdle
    /\ fetchAvailable \in BOOLEAN
    /\ DownloadIdle /\ StreamIdle /\ HttpIdle

\* getFile / getNode settles with outcome and the handler answers
Settle(outcome) ==
    /\ settled' = outcome
    /\ toolResult' = ToolHandler(outcome)
    /\ pc' = "done"

\* the tool is called: the handler calls getNode or getFile, which calls
\* request, which throws without fetch or issues its fetch
CallTool ==
    /\ pc = "idle"
    /\ \E nodeId \in {Undefined, Str("1:2")}, depth \in {Undefined, NumInt(1)} :
          toolArgs' = [fileKey |-> "key", nodeId |-> nodeId, depth |-> depth]
    /\ IF fetchAvailable
       THEN /\ pc' = "fetching"
            /\ fetches' = fetches + 1
            /\ UNCHANGED <<settled, toolResult>>
       ELSE /\ Settle([ok |-> FALSE, error |-> Error(NoFetchText)])
            /\ UNCHANGED fetches
    /\ UNCHANGED <<helperVars, styleIds, fetchAvailable, response>>
    /\ UNCHANGED <<downloadVars, streamVars, httpVars>>

\* the fetch rejects (no answer from upstream)
FetchRejects ==
    /\ pc = "fetching"
    /\ \E message \in {"fetch failed"} :
          Settle([ok |-> FALSE, error |-> requestCatch(Error(message))])
    /\ UNCHANGED <<helperVars, styleIds, fetchAvailable, toolArgs, fetches, response>>
    /\ UNCHANGED <<downloadVars, streamVars, httpVars>>

\* the fetch resolves with a Response
FetchResolves ==
    /\ pc = "fetching"
    /\ \E status \in Statuses, statusText \in StatusTexts :
          LET resp == [status |-> status, statusText |-> statusText]
          IN  /\ response' = resp
              /\ IF ResponseOk(resp)
                 THEN pc' = "json" /\ UNCHANGED <<settled, toolResult>>
                 ELSE Settle([ok |-> FALSE, error |-> requestCatch(FigmaErrorOf(resp))])
    /\ UNCHANGED <<helperVars, styleIds, fetchAvailable, toolArgs, fetches>>
    /\ UNCHANGED <<downloadVars, streamVars, httpVars>>

\* response.json() settles, and on success the document is converted
JsonSettles ==
    /\ pc = "json"
    /\ \E body \in Bodies :
          IF body = InvalidJson
          THEN Settle([ok |-> FALSE,
                       error |-> requestCatch(Error("Unexpected token in JSON"))])
          ELSE Settle(parseFigmaResponse(body))
    /\ UNCHANGED <<helperVars, styleIds, fetchAvailable, toolArgs, fetches, response>>
    /\ UNCHANGED <<downloadVars, streamVars, httpVars>>

NextTool ==
    \/ CallTool
    \/ FetchRejects
    \/ FetchResolves
    \/ JsonSettles

SpecTool == InitTool /\ [][NextTool]_vars

---------------------------------------------------------------------------
(* startServer (src/cli.ts:16-31), getServerConfig (src/config.ts:43-104), *)
(* the download_figma_images handler (src/cli.ts:187-236) and              *)
(* FigmaService.getImageFills / getImages (src/unnamed/part_001:101-163).  *)
(* downloadFigmaImage appears here by its console.log and its outcome.     *)

\* cli.ts:224-225, the two answers of the handler, and cli.ts:233
SuccessPrefix == "success, downloaded "
SuccessInfix == " images: "
FailedText == "failed"
DownloadErrorPrefix == "error while downloading images: "
\* the localPath argument
LocalPath == "/abs/images"

\* the nodes that may be requested: fileName is kept as stem and extension
FillNode == [nodeId |-> "1:1", imageRef |-> Str("ref1"),
             fileName |-> [stem |-> "fill", ext |-> ".png"]]
PngNode == [nodeId |-> "1:2", imageRef |-> Undefined,
            fileName |-> [stem |-> "icon", ext |-> ".png"]]
SvgNode == [nodeId |-> "1:3", imageRef |-> Undefined,
            fileName |-> [stem |-> "logo", ext |-> ".svg"]]
NodeLists == UNION {[1..n -> {FillNode, PngNode, SvgNode}] : n \in 0..MaxNodes}

\* what happens to one node: the upstream has no URL for it, its download
\* produces the file, or its download rejects
Fates == {"nourl", "file", "reject"}

\* path.join(localPath, fileName)
FullPath(node) == LocalPath \o "/" \o node.fileName.stem \o node.fileName.ext

\* nodes.filter(({ imageRef }) => !!imageRef)
ImageFills(nodes) == SelectSeq(nodes, LAMBDA n : n.imageRef # Undefined /\ n.imageRef.s # "")

\* nodes.filter(({ imageRef }) => !imageRef).map(...), with the fileType
RenderRequests(nodes) ==
    LET plain == SelectSeq(nodes, LAMBDA n : ~(n.imageRef # Undefined /\ n.imageRef.s # ""))
    IN  [i \in 1..Len(plain) |->
            [nodeId |-> plain[i].nodeId, fileName |-> plain[i].fileName,
             fileType |-> IF plain[i].fileName.ext = ".svg" THEN "svg" ELSE "png"]]

\* Promise.all of downloads with the given fates, one result per "file"
\* and the first rejection if any
PromiseAllDownloads(nodes, fates, results) ==
    IF \E i \in 1..Len(nodes) : fates[i] = "reject"
    THEN [ok |-> FALSE, error |-> Error("download failed")]
    ELSE Returned(results)

\* getImageFills: requestOk is the outcome of the /images request
getImageFills(nodes, requestOk, fates) ==
    IF Len(nodes) = 0 THEN Returned(<<>>)
    ELSE IF ~requestOk
    THEN [ok |-> FALSE, error |-> FigmaErrorOf([status |-> 403, statusText |-> "Forbidden"])]
    ELSE PromiseAllDownloads(nodes, fates,
            [i \in 1..Len(nodes) |->
                IF fates[i] = "nourl" THEN "" ELSE FullPath(nodes[i])])

\* getImages: pngOk and svgOk are the outcomes of the two render requests,
\* issued only for a non-empty id list; nodes without URL are filtered out
getImages(nodes, pngOk, svgOk, fates) ==
    IF \/ (\E i \in 1..Len(nodes) : nodes[i].fileType = "png") /\ ~pngOk
       \/ (\E i \in 1..Len(nodes) : nodes[i].fileType = "svg") /\ ~svgOk
    THEN [ok |-> FALSE, error |-> FigmaErrorOf([status |-> 403, statusText |-> "Forbidden"])]
    ELSE LET withUrl == {i \in 1..Len(nodes) : fates[i] # "nourl"}
             Nth(k) == CHOOSE i \in withUrl :
                            Cardinality({j \in withUrl : j <= i}) = k
         IN  PromiseAllDownloads(nodes, fates,
                [k \in 1..Cardinality(withUrl) |-> FullPath(nodes[Nth(k)])])

RECURSIVE JoinComma(_)
\* downloads.join(", ")
JoinComma(strings) ==
    IF strings = <<>> THEN ""
    ELSE IF Len(strings) = 1 THEN Head(strings)
    ELSE Head(strings) \o ", " \o JoinComma(Tail(strings))

\* Array.prototype.find with the predicate (success) => !success
FindFailed(downloads) ==
    IF \E i \in 1..Len(downloads) : downloads[i] = ""
    THEN Str(downloads[CHOOSE i \in 1..Len(downloads) :
                        /\ downloads[i] = ""
                        /\ \A j \in 1..(i - 1) : downloads[j] # ""])
    ELSE Undefined

\* JavaScript truthiness of a string or undefined
Truthy(v) ==
    CASE v.t = "string" -> v.s # ""
      [] v.t \in {"undefined", "null"} -> FALSE
      [] v.t = "boolean" -> v.b
      [] v.t = "number" -> v.num # 0
      [] OTHER -> TRUE

\* `${error}` for a thrown value
ErrorToString(error) ==
    IF error.t = "Error" THEN "Error: " \o error.message ELSE "[object Object]"

\* the handler once Promise.all([fillDownloads, renderDownloads]) settled
DownloadHandler(f, r) ==
    IF ~f.ok \/ ~r.ok
    THEN LET error == IF ~f.ok THEN f.error ELSE r.error
         IN  [isError |-> TRUE,
              content |-> <<[type |-> "text",
                             text |-> Str(DownloadErrorPrefix \o ErrorToString(error))]>>]
    ELSE LET downloads == f.value \o r.value
             saveSuccess == ~Truthy(FindFailed(downloads))
         IN  [content |-> <<[type |-> "text",
                             text |-> IF saveSuccess
                                      THEN Str(SuccessPrefix \o NatToString(Len(downloads))
                                               \o SuccessInfix \o JoinComma(downloads))
                                      ELSE Str(FailedText)]>>]

\* the console.log lines of getServerConfig and startServer in HTTP mode
ConfigLines == <<"config:", "- FIGMA_API_KEY:", "- PORT:", "", "HTTP mode">>

\* the console.log line of each downloadFigmaImage call among the nodes
FullPathLines(nodes, fates) ==
    LET called == SelectSeq([i \in 1..Len(nodes) |-> fates[i]], LAMBDA f : f # "nourl")
    IN  [i \in 1..Len(called) |-> "fullPath====>"]

\* the file names of the nodes whose download produced the file
Saved(nodes, fates) ==
    {nodes[i].fileName : i \in {j \in 1..Len(nodes) : fates[j] = "file"}}

InitDownload ==
    /\ call = "none"
    /\ args = Undefined
    /\ ret = Pending
    /\ styleIds = <<>>
    /\ ToolIdle
    /\ fetchAvailable = TRUE
    /\ StreamIdle /\ HttpIdle
    /\ isStdioMode \in BOOLEAN
    /\ stdout = <<>>
    /\ dlPc = "boot"
    /\ dlNodes = <<>>
    /\ fillDownloads = Pending
    /\ renderDownloads = Pending
    /\ savedFiles = {}
    /\ dlResult = Pending

otherThanDownload == <<helperVars, styleIds, toolVars, streamVars, httpVars>>

\* startServer: getServerConfig, then connect (stdio) or startHttpServer
StartServer ==
    /\ dlPc = "boot"
    /\ \E hasApiKey \in BOOLEAN :
          IF ~hasApiKey
          THEN dlPc' = "exited" /\ UNCHANGED stdout
          ELSE /\ dlPc' = "ready"
               /\ stdout' = IF isStdioMode THEN stdout ELSE stdout \o ConfigLines
    /\ UNCHANGED <<isStdioMode, dlNodes, fillDownloads, renderDownloads,
                   savedFiles, dlResult>>
    /\ UNCHANGED otherThanDownload

\* the tool is called: getImageFills and getImages are started
CallDownloadTool ==
    /\ dlPc = "ready"
    /\ dlNodes' \in NodeLists
    /\ dlPc' = "running"
    /\ UNCHANGED <<isStdioMode, stdout, fillDownloads, renderDownloads,
                   savedFiles, dlResult>>
    /\ UNCHANGED otherThanDownload

\* the promise of getImageFills settles
GetImageFillsSettles ==
    /\ dlPc \in {"running", "done"}
    /\ fillDownloads = Pending
    /\ LET nodes == ImageFills(dlNodes)
       IN  \E requestOk \in BOOLEAN, fates \in [1..Len(nodes) -> Fates] :
             /\ fillDownloads' = getImageFills(nodes, requestOk, fates)
             /\ savedFiles' = IF requestOk THEN savedFiles \cup Saved(nodes, fates)
                              ELSE savedFiles
             /\ stdout' = IF requestOk THEN stdout \o FullPathLines(nodes, fates)
                          ELSE stdout
    /\ UNCHANGED <<isStdioMode, dlPc, dlNodes, renderDownloads, dlResult>>
    /\ UNCHANGED otherThanDownload

\* the promise of getImages settles
GetImagesSettles ==
    /\ dlPc \in {"running", "done"}
    /\ renderDownloads = Pending
    /\ LET nodes == RenderRequests(dlNodes)
       IN  \E pngOk \in BOOLEAN, svgOk \in BOOLEAN, fates \in [1..Len(nodes) -> Fates] :
             LET outcome == getImages(nodes, pngOk, svgOk, fates)
                 requested == outcome.ok \/ outcome.error.t = "Error"
             IN  /\ renderDownloads' = outcome
                 /\ savedFiles' = IF requested THEN savedFiles \cup Saved(nodes, fates)
                                  ELSE savedFiles
                 /\ stdout' = IF requested THEN stdout \o FullPathLines(nodes, fates)
                              ELSE stdout
    /\ UNCHANGED <<isStdioMode, dlPc, dlNodes, fillDownloads, dlResult>>
    /\ UNCHANGED otherThanDownload

\* Promise.all of the two settles and the handler answers
DownloadToolReturns ==
    /\ dlPc = "running"
    /\ \/ fillDownloads # Pending /\ renderDownloads # Pending
       \/ fillDownloads # Pending /\ ~fillDownloads.ok
       \/ renderDownloads # Pending /\ ~renderDownloads.ok
    /\ LET f == IF fillDownloads = Pending THEN Returned(<<>>) ELSE fillDownloads
           r == IF renderDownloads = Pending THEN Returned(<<>>) ELSE renderDownloads
       IN  /\ dlResult' = DownloadHandler(f, r)
           /\ stdout' = IF f.ok /\ r.ok
                        THEN stdout \o <<"downloads====>", "saveSuccess====>">>
                        ELSE stdout
    /\ dlPc' = "done"
    /\ UNCHANGED <<isStdioMode, dlNodes, fillDownloads, renderDownloads, savedFiles>>
    /\ UNCHANGED otherThanDownload

NextDownload ==
    \/ StartServer
    \/ CallDownloadTool
    \/ GetImageFillsSettles
    \/ GetImagesSettles
    \/ DownloadToolReturns

SpecDownload == InitDownload /\ [][NextDownload]_vars

---------------------------------------------------------------------------
(* downloadFigmaImage, src/utils/common.ts:22-87.  The reads of the        *)
(* response body, the writes of the file stream and its error event are    *)
(* separate steps; each step runs one callback to its end.                 *)

\* resolve(...) or reject(...) on a promise: only the first call settles it
SettlePromise(state, outcome) == IF state = "pending" THEN outcome ELSE state

InitStream ==
    /\ call = "none"
    /\ args = Undefined
    /\ ret = Pending
    /\ styleIds = <<>>
    /\ ToolIdle
    /\ fetchAvailable = TRUE
    /\ DownloadIdle /\ HttpIdle
    /\ stPc = "start"
    /\ promise = "pending"
    /\ queued = 0
    /\ flushed = 0
    /\ writer = "none"
    /\ ended = FALSE
    /\ readFailed = FALSE
    /\ cancelled = FALSE
    /\ unlinks = 0

otherThanStream == <<helperVars, styleIds, toolVars, httpVars, isStdioMode, dlPc,
                     dlNodes, fillDownloads, renderDownloads, savedFiles, dlResult>>

\* lines 27-53: the path is logged and the image is fetched; a rejected
\* fetch, a non-success answer or a missing body make the call throw
FetchImage ==
    /\ stPc = "start"
    /\ stdout' = Append(stdout, "fullPath====>")
    /\ \E answer \in {"rejected", "notOk", "noBody", "ok"} :
          /\ writer' = IF answer \in {"noBody", "ok"} THEN "open" ELSE writer
          /\ IF answer = "ok"
             THEN stPc' = "reading" /\ UNCHANGED promise
             ELSE stPc' = "threw" /\ promise' = SettlePromise(promise, "rejected")
    /\ UNCHANGED <<queued, flushed, ended, readFailed, cancelled, unlinks>>
    /\ UNCHANGED otherThanStream

\* lines 60 and 65: reader.read() gives a chunk, handed to writer.write
ReadChunk ==
    /\ stPc = "reading"
    /\ ~cancelled
    /\ queued < MaxChunks
    /\ queued' = queued + 1
    /\ UNCHANGED <<stPc, promise, flushed, writer, ended, readFailed, cancelled,
                   unlinks, stdout>>
    /\ UNCHANGED otherThanStream

\* lines 60-67: reader.read() reports the end of the body (also after a
\* cancel): writer.end(), then resolve(fullPath)
ReadDone ==
    /\ stPc = "reading"
    /\ ended' = TRUE
    /\ promise' = SettlePromise(promise, "fulfilled")
    /\ stPc' = "finished"
    /\ UNCHANGED <<queued, flushed, writer, readFailed, cancelled, unlinks, stdout>>
    /\ UNCHANGED otherThanStream

\* lines 68-72: reader.read() rejects: writer.end(), unlink, reject(err)
ReadFails ==
    /\ stPc = "reading"
    /\ ~cancelled
    /\ readFailed' = TRUE
    /\ ended' = TRUE
    /\ unlinks' = unlinks + 1
    /\ promise' = SettlePromise(promise, "rejected")
    /\ stPc' = "finished"
    /\ UNCHANGED <<queued, flushed, writer, cancelled, stdout>>
    /\ UNCHANGED otherThanStream

\* the file stream writes one queued chunk to the file
WriteFlushed ==
    /\ stPc \in {"reading", "finished"}
    /\ writer = "open"
    /\ flushed < queued
    /\ flushed' = flushed + 1
    /\ UNCHANGED <<stPc, promise, queued, writer, ended, readFailed, cancelled,
                   unlinks, stdout>>
    /\ UNCHANGED otherThanStream

\* the file stream closes after end() once every queued chunk is written
WriterFinishes ==
    /\ stPc \in {"reading", "finished"}
    /\ writer = "open"
    /\ ended
    /\ flushed = queued
    /\ writer' = "finished"
    /\ UNCHANGED <<stPc, promise, queued, flushed, ended, readFailed, cancelled,
                   unlinks, stdout>>
    /\ UNCHANGED otherThanStream

\* lines 75-79: the file stream emits "error" (opening, writing or closing
\* failed): reader.cancel(), unlink, reject(new Error(...))
WriterError ==
    /\ stPc \in {"reading", "finished"}
    /\ writer = "open"
    /\ writer' = "errored"
    /\ cancelled' = TRUE
    /\ unlinks' = unlinks + 1
    /\ promise' = SettlePromise(promise, "rejected")
    /\ UNCHANGED <<stPc, queued, flushed, ended, readFailed, stdout>>
    /\ UNCHANGED otherThanStream

NextStream ==
    \/ FetchImage
    \/ ReadChunk
    \/ ReadDone
    \/ ReadFails
    \/ WriteFlushed
    \/ WriterFinishes
    \/ WriterError

SpecStream == InitStream /\ [][NextStream]_vars

---------------------------------------------------------------------------
(* HTTP mode, cli.ts:268-295: the GET /sse and POST /messages routes and   *)
(* the close event of a connection.  The transports table is a plain       *)
(* object: a set of own entries on top of Object.prototype.                *)

\* transport.sessionId: the SSEServerTransport draws a fresh UUID
SessionId(c) == "session-" \o NatToString(c)

\* the SSEServerTransport of connection c
Transport(c) == [t |-> "transport", conn |-> c]

\* what every plain object inherits
ObjectPrototype ==
    { [key |-> "constructor", value |-> [t |-> "function", name |-> "Object"]],
      [key |-> "toString", value |-> [t |-> "function", name |-> "toString"]],
      [key |-> "__proto__", value |-> Obj(<<>>)] }

OwnKeys(table) == {e.key : e \in table}

\* table[key]: the own entry, else the inherited one, else undefined
Get(table, key) ==
    IF key \in OwnKeys(table)
    THEN (CHOOSE e \in table : e.key = key).value
    ELSE IF key \in OwnKeys(ObjectPrototype)
    THEN (CHOOSE e \in ObjectPrototype : e.key = key).value
    ELSE Undefined

\* table[key] = value
Set(table, key, value) ==
    {e \in table : e.key # key} \union {[key |-> key, value |-> value]}

\* delete table[key]
Delete(table, key) == {e \in table : e.key # key}

\* lines 288-294: status 400 when the lookup is falsy, else
\* handlePostMessage of what was found; calling it on a value that has no
\* such method throws a TypeError.  transport 0: no transport handled it;
\* status 0: the answer is left to the transport
HandlePost(table, sessionId) ==
    LET found == Get(table, sessionId)
    IN  IF ~Truthy(found)
        THEN [status |-> 400, transport |-> 0, threw |-> FALSE]
        ELSE IF found.t = "transport"
        THEN [status |-> 0, transport |-> found.conn, threw |-> FALSE]
        ELSE [status |-> 0, transport |-> 0, threw |-> TRUE]

\* the open connection whose session id is sessionId, 0 if there is none
OwnerOf(connections, sessionId) ==
    LET owners == {c \in 1..Len(connections) :
                      connections[c] = "open" /\ SessionId(c) = sessionId}
    IN  IF owners = {} THEN 0 ELSE CHOOSE c \in owners : TRUE

\* req.query.sessionId: the id of some connection, a missing parameter
\* (the key "undefined"), or a name every object inherits
PostIds ==
    {SessionId(c) : c \in 1..MaxConns} \union {"undefined", "constructor", "__proto__"}

InitHttp ==
    /\ call = "none"
    /\ args = Undefined
    /\ ret = Pending
    /\ styleIds = <<>>
    /\ ToolIdle
    /\ fetchAvailable = TRUE
    /\ DownloadIdle /\ StreamIdle /\ HttpIdle

otherThanHttp == <<helperVars, styleIds, toolVars, streamVars, isStdioMode, dlPc,
                   dlNodes, fillDownloads, renderDownloads, savedFiles, dlResult>>

\* lines 271-285: a new transport is stored under its session id
GetSse ==
    /\ Len(sse) < MaxConns
    /\ LET c == Len(sse) + 1
       IN  /\ stdout' = stdout \o <<"new SSE connection",
                                     "SSE connection for session " \o SessionId(c)>>
           /\ transports' = Set(transports, SessionId(c), Transport(c))
           /\ sse' = Append(sse, "open")
    /\ UNCHANGED post
    /\ UNCHANGED otherThanHttp

\* lines 280-282: res.on("close")
CloseConn ==
    /\ \E c \in 1..Len(sse) :
          /\ sse[c] = "open"
          /\ sse' = [sse EXCEPT ![c] = "closed"]
          /\ transports' = Delete(transports, SessionId(c))
    /\ UNCHANGED <<post, stdout>>
    /\ UNCHANGED otherThanHttp

\* lines 287-295
PostMessage ==
    /\ Len(post) < MaxPosts
    /\ \E sessionId \in PostIds :
          LET handled == HandlePost(transports, sessionId)
          IN  /\ post' = Append(post, [sessionId |-> sessionId,
                                       owner |-> OwnerOf(sse, sessionId),
                                       status |-> handled.status,
                                       transport |-> handled.transport,
                                       threw |-> handled.threw])
              /\ stdout' = IF handled.status = 400
                           THEN stdout
                           ELSE Append(stdout, "message for session " \o sessionId)
    /\ UNCHANGED <<transports, sse>>
    /\ UNCHANGED otherThanHttp

NextHttp ==
    \/ GetSse
    \/ CloseConn
    \/ PostMessage

SpecHttp == InitHttp /\ [][NextHttp]_vars

---------------------------------------------------------------------------
(* Properties of the helpers.                                              *)

Applied(name) == call = name /\ ret # Pending

\* C1: generateCSSShorthand picks its form by the priority: absent when
\* ignoreZero and all four sides are 0; else one value when all four are
\* equal; else, when right = left, two values if top = bottom and three
\* if not; else four values top-right-bottom-left.  So top = bottom with
\* right # left gives four values, and all zero with ignoreZero = false
\* gives "0" + suffix.
C1_ShorthandPriority ==
    Applied("generateCSSShorthand") =>
        LET v == args.values
            ignoreZero == args.options.ignoreZero # Bool(FALSE)
            suffix == IF args.options.suffix = Undefined THEN "px"
                      ELSE args.options.suffix.s
            P(n) == IntToString(n) \o suffix
            allZero == v.top = 0 /\ v.right = 0 /\ v.bottom = 0 /\ v.left = 0
            allEqual == v.top = v.right /\ v.top = v.bottom /\ v.top = v.left
            one == Str(P(v.top))
            two == Str(P(v.top) \o " " \o P(v.right))
            three == Str(P(v.top) \o " " \o P(v.right) \o " " \o P(v.bottom))
            four == Str(P(v.top) \o " " \o P(v.right) \o " " \o P(v.bottom)
                                \o " " \o P(v.left))
        IN  /\ ret = CASE ignoreZero /\ allZero -> Undefined
                       [] ~(ignoreZero /\ allZero) /\ allEqual -> one
                       [] ~allEqual /\ v.right = v.left /\ v.top = v.bottom -> two
                       [] ~allEqual /\ v.right = v.left /\ v.top # v.bottom -> three
                       [] OTHER -> four
            /\ (v.top = v.bottom /\ v.right # v.left) => ret = four
            /\ (allZero /\ ~ignoreZero) => ret = Str("0" \o suffix)

C1_Witness ==
    /\ Applied("generateCSSShorthand")
    /\ args.values = [top |-> 1, right |-> 2, bottom |-> 1, left |-> 3]
    /\ args.options.suffix = Undefined
    /\ ret = Str("1px 2px 1px 3px")

\* C2: for a SOLID paint, with a the combined opacity
\* round(o * alpha * 100) / 100 of convertColor, parsePaint returns the bare
\* hex string when a = 1 and otherwise "rgba(R, G, B, a)" whose alpha
\* component is that same a, the colour's alpha folded in once.
C2_SolidAlphaFoldedOnce ==
    (Applied("parsePaint") /\ args.raw.type = "SOLID") =>
        LET color == args.raw.color
            a == CombinedHundredths(color, OpacityOrDefault(args.raw.opacity))
            R == MathRound(color.r.num * 255, color.r.den)
            G == MathRound(color.g.num * 255, color.g.den)
            B == MathRound(color.b.num * 255, color.b.den)
        IN  ret = Returned(Str(
                IF a = 100 THEN convertColor(color, args.raw.opacity).hex
                ELSE "rgba(" \o NatToString(R) \o ", " \o NatToString(G) \o ", "
                             \o NatToString(B) \o ", " \o HundredthsToString(a)
                             \o ")"))

\* C3: for a paint of a gradient kind parsePaint returns the type, the
\* handle positions and the stops in input order with unchanged positions,
\* each stop's colour being convertColor of the stop's colour with opacity
\* 1; paints that differ only in the paint's opacity give the same result.
C3_GradientIgnoresPaintOpacity ==
    (Applied("parsePaint") /\ args.raw.type \in GradientTypes) =>
        LET raw == args.raw
        IN  /\ ret.ok
            /\ ret.value.type = raw.type
            /\ ret.value.gradientHandlePositions = raw.gradientHandlePositions
            /\ Len(ret.value.gradientStops) = Len(raw.gradientStops)
            /\ \A i \in 1..Len(raw.gradientStops) :
                  /\ ret.value.gradientStops[i].position = raw.gradientStops[i].position
                  /\ ret.value.gradientStops[i].color =
                        convertColor(raw.gradientStops[i].color, NumInt(1))
            /\ \A o \in Opacities : parsePaint([raw EXCEPT !.opacity = o]) = ret

C3_Witness ==
    /\ Applied("parsePaint")
    /\ args.raw.type = "GRADIENT_RADIAL"
    /\ args.raw.opacity = Num(1, AlphaDen)
    /\ Len(args.raw.gradientStops) = 2
    /\ args.raw.gradientStops[1].color.a = Num(AlphaDen, AlphaDen)
    /\ args.raw.gradientStops[1].color.r = Num(ChanDen, ChanDen)
    /\ ret.value.gradientStops[1].color = [hex |-> "#FF000A", opacity |-> Num(100, 100)]

SupportedPaintTypes == {"IMAGE", "SOLID"} \cup GradientTypes

\* C4: parsePaint throws an error and returns no fill for every paint whose
\* type is none of IMAGE, SOLID and the four gradient kinds; for those six
\* it returns a fill and does not throw; an IMAGE paint gives
\* {type: IMAGE, imageRef, scaleMode}.
C4_UnsupportedPaintTypeFails ==
    Applied("parsePaint") =>
        LET raw == args.raw
        IN  /\ raw.type \notin SupportedPaintTypes =>
                  /\ ~ret.ok
                  /\ DOMAIN ret = {"ok", "error"}
                  /\ ret.error.message = "Unknown paint type: " \o raw.type
            /\ raw.type \in SupportedPaintTypes =>
                  ret.ok /\ DOMAIN ret = {"ok", "value"}
            /\ raw.type = "IMAGE" =>
                  ret.value = [type |-> "IMAGE", imageRef |-> raw.imageRef,
                               scaleMode |-> raw.scaleMode]

C4_Witness ==
    /\ Applied("parsePaint")
    /\ args.raw.type = "VIDEO"
    /\ ret = Thrown("Unknown paint type: VIDEO")

UpperHexDigit == <<"0", "1", "2", "3", "4", "5", "6", "7", "8", "9",
                   "A", "B", "C", "D", "E", "F">>
\* the two upper-case hexadecimal digits of n in 0..255
TwoHex(n) == UpperHexDigit[(n \div 16) + 1] \o UpperHexDigit[(n % 16) + 1]

\* C5: for channels in [0,1] the hex of convertColor is "#" followed by the
\* two-digit zero-padded upper-case encodings of R = round(r * 255),
\* G and B, each in 0..255 (seven characters in all), and
\* convertColor({r:1,g:0,b:0,a:1}, 1) is {hex: "#FF0000", opacity: 1}.
C5_HexSixUpperDigits ==
    Applied("convertColor") =>
        LET color == args.color
            R == MathRound(color.r.num * 255, color.r.den)
            G == MathRound(color.g.num * 255, color.g.den)
            B == MathRound(color.b.num * 255, color.b.den)
        IN  /\ R \in 0..255 /\ G \in 0..255 /\ B \in 0..255
            /\ ret.hex = "#" \o TwoHex(R) \o TwoHex(G) \o TwoHex(B)
            /\ Len(ret.hex) = 7
            /\ ( /\ NumEq(color.r, NumInt(1)) /\ NumEq(color.g, NumInt(0))
                 /\ NumEq(color.b, NumInt(0)) /\ NumEq(color.a, NumInt(1))
                 /\ NumEq(OpacityOrDefault(args.opacity), NumInt(1)) )
                => (ret.hex = "#FF0000" /\ NumEq(ret.opacity, NumInt(1)))

C5_Witness ==
    /\ Applied("convertColor")
    /\ args.color.r = Num(0, ChanDen)
    /\ args.color.g = Num(0, ChanDen)
    /\ args.color.b = Num(10, 255)
    /\ ret.hex = "#00000A"

\* a cleaned value that makes removeEmptyKeys drop its key
Droppable(v) ==
    \/ v = Undefined
    \/ v.t = "array" /\ Len(v.items) = 0
    \/ v.t = "object" /\ Len(v.entries) = 0

RECURSIVE Compacted(_, _)
\* out is the compaction of in: primitives unchanged, arrays element-wise
\* with the same length, and of an object exactly the keys whose cleaned
\* value is not droppable, in their order, each with its cleaned value
Compacted(in, out) ==
    CASE in.t = "array" ->
            /\ out.t = "array"
            /\ Len(out.items) = Len(in.items)
            /\ \A i \in 1..Len(in.items) : Compacted(in.items[i], out.items[i])
      [] in.t = "object" ->
            LET kept == SelectSeq(in.entries,
                            LAMBDA e : ~Droppable(removeEmptyKeys(e.value)))
            IN  /\ out.t = "object"
                /\ Len(out.entries) = Len(kept)
                /\ \A i \in 1..Len(kept) :
                      /\ out.entries[i].key = kept[i].key
                      /\ ~Droppable(out.entries[i].value)
                      /\ Compacted(kept[i].value, out.entries[i].value)
                /\ \A i \in 1..Len(in.entries) :
                      in.entries[i].value.t \in {"null", "number", "boolean", "string"}
                          => \E j \in 1..Len(out.entries) : out.entries[j] = in.entries[i]
      [] OTHER -> out = in

\* {c: 0, d: false, e: {f: 1}}
ExampleOutput ==
    Obj(<<Entry("c", NumInt(0)), Entry("d", Bool(FALSE)),
          Entry("e", Obj(<<Entry("f", NumInt(1))>>))>>)

\* C6: removeEmptyKeys drops an object key exactly when its cleaned value is
\* undefined, an array of length 0 or an object with no remaining key (an
\* object losing all its keys is dropped from its parent), keeps every key
\* with a primitive value (0, false and "" included) unchanged, cleans
\* arrays element-wise keeping their length, and maps
\* {a: [], b: {}, c: 0, d: false, e: {f: 1}} to {c: 0, d: false, e: {f: 1}}.
C6_CompactorDropsOnlyEmpty ==
    Applied("removeEmptyKeys") =>
        /\ Compacted(args.input, ret)
        /\ args.input = ExampleInput => ret = ExampleOutput

C6_Witness ==
    /\ Applied("removeEmptyKeys")
    /\ args.input = Obj(<<Entry("a", Obj(<<Entry("a", Arr(<<>>))>>)),
                          Entry("b", Arr(<<NumInt(0), Obj(<<>>)>>))>>)
    /\ ret = Obj(<<Entry("b", Arr(<<NumInt(0), Obj(<<>>)>>))>>)

\* C8: isVisible returns the visible flag when it is present and true when
\* it is absent.
C8_VisibleDefaultsTrue ==
    Applied("isVisible") =>
        /\ args.element.visible = Undefined => ret = Bool(TRUE)
        /\ args.element.visible # Undefined => ret = args.element.visible

C8_Witness ==
    /\ Applied("isVisible")
    /\ args.element.visible = Bool(FALSE)
    /\ ret = Bool(FALSE)

---------------------------------------------------------------------------
(* Properties of generateVarId and of the get_figma_data path.             *)

\* C7: the identifiers generateVarId returns within one run are pairwise
\* distinct, whatever the prefixes, and each is its prefix, "_" and six
\* characters.
C7_StyleIdsDistinct ==
    /\ \A i, j \in 1..Len(styleIds) : i # j => styleIds[i] # styleIds[j]
    /\ (call = "generateVarId" /\ ret # Pending) =>
          LET prefix == IF args.prefix = Undefined THEN "var" ELSE args.prefix.s
          IN  Len(ret.s) = Len(prefix) + 1 + IdLength

\* the upstream answered the call's fetch with a non-success status
UpstreamFailed == pc = "done" /\ response # Undefined /\ ~ResponseOk(response)

C10_HandlerAlwaysReturns ==
    pc = "done" =>
        /\ toolResult # Pending
        /\ "content" \in DOMAIN toolResult
        /\ Len(toolResult.content) = 1
        /\ toolResult.content[1].type = "text"
        /\ settled.ok =>
              /\ DOMAIN toolResult = {"content"}
              /\ toolResult.content[1].text =
                    YamlDump([metadata |-> [name |-> settled.value.name],
                              nodes |-> settled.value.nodes,
                              globalVars |-> settled.value.globalVars])
        /\ ~settled.ok =>
              /\ DOMAIN toolResult = {"isError", "content"}
              /\ toolResult.isError = TRUE
              /\ toolResult.content[1].text.t = "string"
              /\ settled.error.t = "Error" =>
                    toolResult.content[1].text =
                        Str(ToolErrorPrefix \o settled.error.message)
              /\ settled.error.t = "FigmaError" =>
                    toolResult.content[1].text =
                        Str(ToolErrorPrefix \o "{\"status\":"
                            \o NatToString(settled.error.status) \o ",\"err\":\""
                            \o settled.error.err \o "\"}")

C10_Witness ==
    /\ pc = "done"
    /\ ~settled.ok
    /\ settled.error = Error("Unknown paint type: VIDEO")
    /\ toolResult = [isError |-> TRUE,
                     content |-> <<[type |-> "text",
                                    text |-> Str(ToolErrorPrefix
                                                 \o "Unknown paint type: VIDEO")]>>]

---------------------------------------------------------------------------
(* Properties of the download_figma_images path and of standard output.    *)

\* the handler answered with the success text
ReportedSuccess ==
    /\ dlPc = "done"
    /\ "isError" \notin DOMAIN dlResult
    /\ dlResult.content[1].text # Str(FailedText)

\* C11: download_figma_images reports success only when every requested
\* node, image fill or rendered, produced a downloaded file, and the number
\* of images it reports equals the number of requested nodes; otherwise
\* its answer is the failure text or an error result.
C11_SuccessMeansAllSaved ==
    ReportedSuccess =>
        /\ \A i \in 1..Len(dlNodes) : dlNodes[i].fileName \in savedFiles
        /\ dlResult.content[1].text =
              Str(SuccessPrefix \o NatToString(Len(dlNodes)) \o SuccessInfix
                  \o JoinComma(fillDownloads.value \o renderDownloads.value))

\* C14: in stdio mode nothing but protocol messages is written to standard
\* output: configuration loading and the tools emit no console.log line.
C14_StdioStdoutClean == isStdioMode => stdout = <<>>

\* C12: in every interleaving of reads, writes and file-stream errors of
\* downloadFigmaImage the promise is settled once processStream has ended,
\* it is fulfilled only if no read failed and the file stream reported no
\* write error, and if a read failed or the file stream emitted an error the
\* promise is rejected and the removal of the file was requested.
C12_FulfilledOnlyIfWritten ==
    /\ stPc = "finished" => promise \in {"fulfilled", "rejected"}
    /\ promise = "fulfilled" => (~readFailed /\ writer # "errored")
    /\ (readFailed \/ writer = "errored") => (promise = "rejected" /\ unlinks > 0)

\* C13: in HTTP mode, whatever the order of GET /sse connections, close
\* events and POST /messages requests, a POST is handed to a transport only
\* if its sessionId is that of a registered connection that has not closed,
\* and then to that connection's transport; every other POST is answered
\* with status 400; the session id of a closed connection is not in the
\* transports table.
C13_PostRoutedToLiveSession ==
    /\ \A i \in 1..Len(post) :
          /\ post[i].transport # 0 =>
                (post[i].owner # 0 /\ post[i].transport = post[i].owner)
          /\ post[i].transport = 0 => post[i].status = 400
    /\ \A c \in 1..Len(sse) :
          sse[c] = "closed" => SessionId(c) \notin OwnKeys(transports)

=============================================================================
